---------------------------- MODULE Spec2Model ----------------------------
(***************************************************************************)
(* Model of sound_field_analysis/gen.py: the generator functions           *)
(* gaussGrid, radFilter, sampledWave and ideal_wave.                       *)
(*                                                                         *)
(* The functions are synchronous library calls.  A state of the model is   *)
(* the last call made: its name (fn), its arguments (args), the way it     *)
(* ended (ret: the exception raised or the value returned) and the local   *)
(* variables and caller-visible objects at its exit (frame).  The initial  *)
(* states draw the function and its arguments from bounded sets; every     *)
(* action is one whole call of one function.                               *)
(*                                                                         *)
(* Numbers.  radFilter works on exact rationals <<p, q>> (q > 0, lowest    *)
(* terms) extended by one non-finite value NaN, which stands for numpy's   *)
(* inf and nan: numpy divides by zero with a warning, not an exception.    *)
(* ideal_wave works on Gaussian integers <<re, im>>, which are closed      *)
(* under the products and conjugations it takes.                           *)
(***************************************************************************)
EXTENDS Integers, Sequences, FiniteSets, TLC

VARIABLES fn, args, ret, frame

vars == <<fn, args, ret, frame>>

-----------------------------------------------------------------------------
(* Bounds of the model                                                     *)

MaxAZ == 8          \* gaussGrid: azimuth nodes 1..MaxAZ
MaxEL == 8          \* gaussGrid: elevation nodes 1..MaxEL
MaxN == 1           \* ideal_wave: maximum transform order N in 0..MaxN
HalfNFFT == 1       \* ideal_wave: F_NFFT = 2 * HalfNFFT, bins 0..HalfNFFT
MaxTwoKr == 125     \* sampledWave: 2 * r * pi * FS / c in 0..MaxTwoKr
MaxHalfNFFT == 3    \* sampledWave: NFFT = 2 * h, h in 0..MaxHalfNFFT
NlimSpan == 2       \* sampledWave: Nlim within NlimSpan of minOrderLim
MaxOrder == 2       \* radFilter: N in 0..MaxOrder
MaxShortKr == 3     \* radFilter: kr of 1..MaxShortKr bins (and near 32 bins)
MaxKrStep == 2      \* radFilter: kr[b] = kr0 + b * step, step in 0..MaxKrStep

-----------------------------------------------------------------------------
(* Python helpers                                                          *)

\* An optional argument: None, or Some(v)
None == <<>>
Some(v) == <<v>>

Min(a, b) == IF a <= b THEN a ELSE b
Max(a, b) == IF a >= b THEN a ELSE b

\* Python's a % b for b > 0 is TLA+'s a % b (result in 0..b-1).
PyMod(a, b) == a % b

\* s[::step] for a sequence s and a step /= 0: every |step|-th element, from
\* the first element forwards (step > 0) or from the last backwards (step < 0).
SliceStep(s, step) ==
    LET n   == Len(s)
        abs == IF step < 0 THEN -step ELSE step
        cnt == IF n = 0 THEN 0 ELSE ((n - 1) \div abs) + 1
    IN  [i \in 1..cnt |->
            IF step > 0 THEN s[1 + (i - 1) * abs] ELSE s[n - (i - 1) * abs]]

-----------------------------------------------------------------------------
(* gaussGrid                                                               *)
(*                                                                         *)
(* An azimuth is kept as its node index k (the angle k*2*pi/AZnodes), a    *)
(* colatitude as the index j of its Legendre node (the angle               *)
(* arccos(x_j)), and a weight as the place <<k, j>> of the element of the  *)
(* normalised outer product W it is read from (W[k][j] =                   *)
(* AZw[k]*ELw[j]/3/sum).  Gauss-Legendre weights are symmetric, so the     *)
(* place, not the number, tells which element a row received.              *)

\* AZ = linspace(0, AZnodes - 1, AZnodes) * 2 * pi / AZnodes
AZ(AZnodes) == [i \in 1..AZnodes |-> i - 1]

\* EL, ELw = leggauss(ELnodes); EL = arccos(EL)
EL(ELnodes) == [i \in 1..ELnodes |-> i - 1]

\* W = outer(AZw, ELw) / 3; W /= W.sum(): row k of W
W(k, ELnodes) == [i \in 1..ELnodes |-> <<k, i - 1>>]

\* The slice step of lines 96 and 97: -1 + k % 2 * 2
FlipStep(k) == -1 + PyMod(k, 2) * 2

\* gridData[curIDX:curIDX + ELnodes, 2] = W[k][::-1 + k % 2 * 2]
\* (WeightColumnUnflipped: the row of W as it stands, W[k])
WeightColumnUnflipped(k, ELnodes) == W(k, ELnodes)
WeightColumn(k, ELnodes) == SliceStep(W(k, ELnodes), FlipStep(k))

\* The rows block k writes: gridData[curIDX:curIDX + ELnodes, 0..2]
GridBlock(k, AZnodes, ELnodes) ==
    LET az == AZ(AZnodes)[k + 1]
        el == SliceStep(EL(ELnodes), FlipStep(k))
        w  == WeightColumn(k, ELnodes)
    IN  [i \in 1..ELnodes |-> [az |-> az, el |-> el[i], w |-> w[i]]]

\* The loop over k in range(0, AZnodes): block k holds rows
\* curIDX = k * ELnodes .. curIDX + ELnodes - 1 (0-based).
gaussGrid(AZnodes, ELnodes) ==
    [r \in 1..(ELnodes * AZnodes) |->
        LET k == (r - 1) \div ELnodes
            i == ((r - 1) % ELnodes) + 1
        IN  GridBlock(k, AZnodes, ELnodes)[i]]

Pending == [exc |-> "pending"]
NoFrame == [none |-> TRUE]

InitGauss ==
    /\ fn = "gaussGrid"
    /\ args \in [AZnodes : 1..MaxAZ, ELnodes : 1..MaxEL]
    /\ ret = Pending
    /\ frame = NoFrame

CallGaussGrid ==
    /\ fn = "gaussGrid"
    /\ ret.exc = "pending"
    /\ ret' = [exc |-> "none",
               gridData |-> gaussGrid(args.AZnodes, args.ELnodes)]
    /\ UNCHANGED <<fn, args, frame>>

-----------------------------------------------------------------------------
(* Gaussian integers <<re, im>>                                            *)

CZero == <<0, 0>>
COne == <<1, 0>>
CMul(x, y) == <<x[1] * y[1] - x[2] * y[2], x[1] * y[2] + x[2] * y[1]>>
CAdd(x, y) == <<x[1] + y[1], x[2] + y[2]>>
\* _np.conj
Conj(x) == <<x[1], -x[2]>>
\* exp(-1j * q * pi / 2) for an integer number q of quarter turns
ExpQuarter(q) ==
    CASE q % 4 = 0 -> <<1, 0>>
      [] q % 4 = 1 -> <<0, -1>>
      [] q % 4 = 2 -> <<-1, 0>>
      [] OTHER     -> <<0, 1>>

-----------------------------------------------------------------------------
(* Collaborators of sound_field_analysis/sph.py.  Their code is not part   *)
(* of the sources; each is a fixed function of its arguments with          *)
(* non-zero values that differ from order to order and from bin to bin.    *)

\* sph_harm(m, n, azimuth, colatitude), for the one direction of the call
sph_harm(m, n) == <<n + 1, m>>

\* array_extrapolation(n, freqs, array_radius, ...) at frequency bin b
array_extrapolation_freq(n, b) == <<n + 1, b + 1>>

\* sphankel2(n, kr(freqs, distance)) at frequency bin b
sphankel2(n, b, distance) == <<1, -(n + b + distance)>>

-----------------------------------------------------------------------------
(* ideal_wave                                                              *)
(*                                                                         *)
(* A string argument is a record [val, lit]: val is its text and lit says  *)
(* whether the object passed is the interned literal the function's own    *)
(* literals denote.  `x is 'plane'` compares objects, `x not in {...}`     *)
(* compares texts.  A string built at run time (read from a file, joined   *)
(* from parts) has lit = FALSE.                                            *)
(*                                                                         *)
(* The argument delayfs is the product delay * fs.  The phase of bin b is  *)
(* w[b] * delay = pi * b * delayfs / (NFFT - 1); the calls drawn have it a *)
(* whole number of quarter turns.  The spherical factor 4*pi*(-1j)*w/c is  *)
(* kept in units of 4*pi^2*fs/((NFFT - 1)*c): -1j * b.                     *)

Str(v) == [val |-> v, lit |-> TRUE]
StrRuntime(v) == [val |-> v, lit |-> FALSE]

\* x is 'literal'
Is(x, literal) == x.val = literal /\ x.lit

\* NFFT = int(F_NFFT / 2 + 1)
NFFTof(F_NFFT) == (F_NFFT \div 2) + 1

\* NMLocatorSize = (N + 1) ** 2
NMLocatorSize(N) == (N + 1) * (N + 1)

\* lines 438-441: the defaults of SegN and upperSegLim
SegNof(a) == IF a.SegN = None THEN a.N ELSE a.SegN[1]
UpperSegLimOf(a) ==
    IF a.upperSegLim = None THEN NFFTof(a.F_NFFT) - 1 ELSE a.upperSegLim[1]

\* SAFETY CHECKS, lines 444-465, in the order of the code: the message of
\* the first check that raises, or "none".
PlaneDistanceCheck(a) ==
    Is(a.wavetype, "plane") /\ a.distance <= a.array_radius

DualPressureCheck(a) ==
    Is(a.array_configuration, "dual") /\ ~Is(a.transducer_type, "pressure")

SafetyChecks(a) ==
    LET NFFT == NFFTof(a.F_NFFT)
        up   == UpperSegLimOf(a)
        lo   == a.lowerSegLim
    IN  CASE up < lo -> "upper below lower"
          [] up > NFFT - 1 -> "upper above NFFT - 1"
          [] up > NFFT - 1 \/ up < 0 -> "upper not in 0..NFFT - 1"
          [] lo > NFFT - 1 \/ lo < 0 -> "lower not in 0..NFFT - 1"
          [] SegNof(a) > a.N -> "segment order above N"
          [] a.wavetype.val \notin {"plane", "spherical"} -> "invalid wavetype"
          [] a.array_configuration.val \notin {"open", "rigid", "dual"} ->
                "invalid sphere configuration"
          [] a.transducer_type.val \notin {"pressure", "velocity"} ->
                "invalid transducer type"
          [] DualPressureCheck(a) -> "dual needs pressure"
          [] 2 * a.delayfs > a.F_NFFT -> "delay too large"
          [] PlaneDistanceCheck(a) -> "source inside array"
          [] OTHER -> "none"

\* time_shift = exp(-1j * w * delay) at bin b
time_shift(a, b) ==
    LET NFFT == NFFTof(a.F_NFFT)
    IN  IF NFFT = 1 THEN COne
        ELSE ExpQuarter((2 * b * a.delayfs) \div (NFFT - 1))

\* lines 470-478: radial_filters[n] at bin b, for 0 <= n < NMLocatorSize
radial_filters(a, n, b) ==
    IF n > SegNof(a) THEN CZero
    ELSE IF Is(a.wavetype, "plane")
         THEN CMul(time_shift(a, b), array_extrapolation_freq(n, b))
    ELSE IF Is(a.wavetype, "spherical")
         THEN CMul(CMul(<<0, -b>>, time_shift(a, b)),
                   CMul(sphankel2(n, b, a.distance),
                        array_extrapolation_freq(n, b)))
    ELSE CZero

\* The (n, m) the generator loop has in hand when ctr has a given value:
\* n = 0..SegN, m = -n..n, ctr counting from 0.
OrderOfRow(ctr) == CHOOSE n \in 0..ctr : n * n <= ctr /\ ctr < (n + 1) * (n + 1)
DegreeOfRow(ctr) == ctr - OrderOfRow(ctr) * OrderOfRow(ctr) - OrderOfRow(ctr)

\* Pnm = _np.empty(...): rows the loop does not write keep what the
\* allocation held, `heap`.  Lines 481-487.
RowsWritten(a) == NMLocatorSize(SegNof(a))

GeneratorCore(a, heap) ==
    [ctr \in 0..(NMLocatorSize(a.N) - 1) |->
        [b \in 0..(NFFTof(a.F_NFFT) - 1) |->
            IF ctr < RowsWritten(a)
            THEN CMul(Conj(sph_harm(DegreeOfRow(ctr), OrderOfRow(ctr))),
                      radial_filters(a, OrderOfRow(ctr), b))
            ELSE heap]]

ideal_wave(a, heap) ==
    IF SafetyChecks(a) # "none"
    THEN [exc |-> "ValueError", msg |-> SafetyChecks(a)]
    ELSE [exc |-> "none", Pnm |-> GeneratorCore(a, heap)]

\* What a fresh allocation may hold
Heap == {CZero, <<7, 7>>}

WaveTypes ==
    {Str("plane"), StrRuntime("plane"), Str("spherical"),
     StrRuntime("spherical"), Str("cylindrical")}
ArrayConfigurations == {Str("open"), Str("rigid"), Str("dual"), Str("closed")}
TransducerTypes ==
    {Str("pressure"), StrRuntime("pressure"), Str("velocity"), Str("gradient")}

\* delay * fs: two admitted values and one above F_NFFT / 2
DelayFs == {0, HalfNFFT, HalfNFFT + 1}

IdealWaveArgs ==
    [N : 0..MaxN,
     SegN : {None} \cup {Some(v) : v \in 0..(MaxN + 1)},
     F_NFFT : {2 * HalfNFFT},
     lowerSegLim : -1..(HalfNFFT + 1),
     upperSegLim : {None} \cup {Some(v) : v \in -1..(HalfNFFT + 1)},
     wavetype : WaveTypes,
     array_configuration : ArrayConfigurations,
     transducer_type : TransducerTypes,
     delayfs : DelayFs,
     array_radius : {1},
     distance : 0..2]

InitWave ==
    /\ fn = "ideal_wave"
    /\ args \in IdealWaveArgs
    /\ ret = Pending
    /\ frame = NoFrame

CallIdealWave ==
    /\ fn = "ideal_wave"
    /\ ret.exc = "pending"
    /\ \E heap \in Heap : ret' = ideal_wave(args, heap)
    /\ UNCHANGED <<fn, args, frame>>

NextWave == CallIdealWave

SpecWave == InitWave /\ [][NextWave]_vars

-----------------------------------------------------------------------------
(* sampledWave                                                             *)
(*                                                                         *)
(* The radius enters through twoKrMax = 2 * r * pi * FS / c, a whole       *)
(* number in the calls drawn, so that 2 * kr[b] = b * twoKrMax / (K - 1)   *)
(* is an exact fraction.  r is a number, or a list [rm, rs] of two.        *)

minOrderLim == 70
NlimDefault == 120

\* ceil(p / q) for q > 0
CeilDiv(p, q) == -((-p) \div q)

\* The number of bins: linspace(..., NFFT / 2 + 1)
BinsOf(NFFT) == (NFFT \div 2) + 1

\* lines 348-354: 2 * krRef's last element
TwoKrRefMax(r) ==
    IF r.list THEN (IF r.rm > r.rs THEN r.rm ELSE r.rs) ELSE r.rm

\* rqOrders = ceil(krRef * 2).astype('int'), krRef = linspace(0, max, K)
RawOrders(r, NFFT) ==
    LET K == BinsOf(NFFT)
    IN  [b \in 0..(K - 1) |->
            IF K = 1 THEN 0 ELSE CeilDiv(b * TwoKrRefMax(r), K - 1)]

\* rqOrders[rqOrders <= minOrderLim] = minOrderLim
\* rqOrders[rqOrders > Nlim] = Nlim
\* (ClipFloorLast: the two statements in the other order)
ClipFloorLast(order, Nlim) ==
    LET capped == IF order > Nlim THEN Nlim ELSE order
    IN  IF capped <= minOrderLim THEN minOrderLim ELSE capped
ClipOrder(order, Nlim) ==
    LET floored == IF order <= minOrderLim THEN minOrderLim ELSE order
    IN  IF floored > Nlim THEN Nlim ELSE floored

rqOrdersOf(r, NFFT, Nlim) ==
    [b \in DOMAIN RawOrders(r, NFFT) |-> ClipOrder(RawOrders(r, NFFT)[b], Nlim)]

MaxOf(f) == CHOOSE x \in {f[i] : i \in DOMAIN f} : \A i \in DOMAIN f : f[i] <= x

\* lines 363-370: what is printed
Diagnostics(maxReqOrder, Ng, printInfo) ==
    IF maxReqOrder > Ng THEN <<"WARNING: order cannot be delivered">>
    ELSE IF minOrderLim = Ng
         THEN (IF printInfo THEN <<"Full spectrum generator order">> ELSE <<>>)
    ELSE (IF printInfo THEN <<"Segmented generator orders">> ELSE <<>>)

\* fOrders = flatnonzero(rqOrders == order)
fOrders(rq, order) == {b \in DOMAIN rq : rq[b] = order}
MinOfSet(S) == CHOOSE x \in S : \A y \in S : x <= y
MaxOfSet(S) == CHOOSE x \in S : \A y \in S : y <= x

\* def ideal_wave(...), line 387-388: the names of its parameters
IdealWaveParams ==
    {"N", "azimuth", "colatitude", "array_radius", "array_configuration",
     "transducer_type", "scatter_radius", "wavetype", "distance", "fs",
     "F_NFFT", "delay", "c", "SegN", "lowerSegLim", "upperSegLim"}

\* line 381: the keywords of sampledWave's call of ideal_wave
SegmentCallKeywords ==
    {"wavetype", "ds", "lowerSegLim", "upperSegLim", "SegN", "printInfo"}

\* line 381: one call ideal_wave(Ng, r, ac, FS, NFFT, AZ, EL, wavetype=...,
\* ds=..., lowerSegLim=fOrders[0], upperSegLim=fOrders[-1], SegN=order,
\* printInfo=False).  Python binds the arguments before the body runs: a
\* keyword that names no parameter raises TypeError.  The seven positional
\* arguments land on N, azimuth, colatitude, array_radius,
\* array_configuration, transducer_type and scatter_radius; F_NFFT, delay
\* and distance keep their defaults 512, 0.0 and 1.0.
SegmentCall(a, rq, Ng, order, heap) ==
    IF ~(SegmentCallKeywords \subseteq IdealWaveParams)
    THEN [exc |-> "TypeError", msg |-> "unexpected keyword argument"]
    ELSE ideal_wave(
            [N |-> Ng, SegN |-> Some(order), F_NFFT |-> 512,
             lowerSegLim |-> MinOfSet(fOrders(rq, order)),
             upperSegLim |-> Some(MaxOfSet(fOrders(rq, order))),
             wavetype |-> StrRuntime(a.wavetype),
             array_configuration |-> StrRuntime(a.NFFT),
             transducer_type |-> StrRuntime(a.AZ),
             delayfs |-> 0, array_radius |-> a.FS, distance |-> 1],
            heap)

\* lines 375-384.  The loop stops at the first call that raises; were no call
\* to raise, every segment's matrix would be added to the zero matrix Pnm.
RECURSIVE Accumulate(_, _, _, _, _, _)
Accumulate(a, rq, Ng, orders, Pnm, heap) ==
    IF orders = {} THEN [exc |-> "none", Pnm |-> Pnm]
    ELSE LET order == MinOfSet(orders)
             seg   == SegmentCall(a, rq, Ng, order, heap)
         IN  IF seg.exc # "none" THEN seg
             ELSE Accumulate(a, rq, Ng, orders \ {order},
                     [row \in DOMAIN Pnm |-> [b \in DOMAIN Pnm[row] |->
                         CAdd(Pnm[row][b], seg.Pnm[0][b])]],
                     heap)

SampledWaveFrame(a) ==
    LET rq == rqOrdersOf(a.r, a.NFFT, a.Nlim)
        Ng == MaxOf(rq)
        maxReqOrder == MaxOf(RawOrders(a.r, a.NFFT))
    IN  [rqOrders |-> rq, Ng |-> Ng, maxReqOrder |-> maxReqOrder,
         unique_orders |-> {rq[b] : b \in DOMAIN rq},
         stdout |-> Diagnostics(maxReqOrder, Ng, a.printInfo)]

sampledWave(a, heap) ==
    LET f == SampledWaveFrame(a)
        zeros == [row \in 0..(NMLocatorSize(f.Ng) - 1) |->
                    [b \in DOMAIN f.rqOrders |-> CZero]]
    IN  Accumulate(a, f.rqOrders, f.Ng, f.unique_orders, zeros, heap)

Radii ==
    {[list |-> FALSE, rm |-> t, rs |-> t] : t \in 0..MaxTwoKr}
    \cup {[list |-> TRUE, rm |-> t, rs |-> u] :
            t \in {0, MaxTwoKr}, u \in {minOrderLim, minOrderLim + 1}}

SampledWaveArgs ==
    [r : Radii,
     NFFT : {2 * h : h \in 0..MaxHalfNFFT},
     Nlim : (minOrderLim - NlimSpan)..(minOrderLim + NlimSpan) \cup {NlimDefault},
     wavetype : {0},
     AZ : {0},
     FS : {48000},
     printInfo : {TRUE}]

InitSampled ==
    /\ fn = "sampledWave"
    /\ args \in SampledWaveArgs
    /\ ret = Pending
    /\ frame = NoFrame

CallSampledWave ==
    /\ fn = "sampledWave"
    /\ ret.exc = "pending"
    /\ \E heap \in Heap : ret' = sampledWave(args, heap)
    /\ frame' = SampledWaveFrame(args)
    /\ UNCHANGED <<fn, args>>

NextSampled == CallSampledWave

SpecSampled == InitSampled /\ [][NextSampled]_vars

-----------------------------------------------------------------------------
(* Rationals <<p, q>>, q > 0, in lowest terms; NaN is numpy's inf or nan  *)

RECURSIVE GCD(_, _)
GCD(x, y) == IF y = 0 THEN x ELSE GCD(y, x % y)
AbsInt(x) == IF x < 0 THEN -x ELSE x

NaN == <<0, 0>>
IsFinite(x) == x[2] # 0
Rat(p, q) ==
    IF q = 0 THEN NaN
    ELSE LET g == GCD(AbsInt(p), AbsInt(q))
             sg == IF q < 0 THEN -1 ELSE 1
         IN  <<sg * (p \div g), sg * (q \div g)>>
RInt(n) == <<n, 1>>
RAdd(x, y) ==
    IF ~IsFinite(x) \/ ~IsFinite(y) THEN NaN
    ELSE Rat(x[1] * y[2] + y[1] * x[2], x[2] * y[2])
RSub(x, y) ==
    IF ~IsFinite(x) \/ ~IsFinite(y) THEN NaN
    ELSE Rat(x[1] * y[2] - y[1] * x[2], x[2] * y[2])
RMul(x, y) ==
    IF ~IsFinite(x) \/ ~IsFinite(y) THEN NaN
    ELSE Rat(x[1] * y[1], x[2] * y[2])
\* x / y: a zero divisor gives inf or nan, not an exception
RDiv(x, y) ==
    IF ~IsFinite(x) \/ ~IsFinite(y) THEN NaN
    ELSE Rat(x[1] * y[2], x[2] * y[1])
RAbs(x) == <<AbsInt(x[1]), x[2]>>
RLess(x, y) == x[1] * y[2] < y[1] * x[2]

\* a & b on naturals
RECURSIVE BitAnd(_, _)
BitAnd(x, y) ==
    IF x = 0 \/ y = 0 THEN 0
    ELSE (x % 2) * (y % 2) + 2 * BitAnd(x \div 2, y \div 2)

-----------------------------------------------------------------------------
(* radFilter                                                               *)
(*                                                                         *)
(* kr is [ndim, v]: v holds the array's rows, one row for a vector         *)
(* (ndim = 1) and two for a matrix (ndim = 2).  It is the caller's array   *)
(* object: an assignment to one of its elements is seen by the caller.     *)

\* line 219: the bin count PLC fading needs
MinPlcBins == 32

\* array_extrapolation(n, krm, krs, ac) of sph.py at one kr value x: a
\* response that vanishes at kr = 0 for the orders above 0 and is non-zero
\* elsewhere: of magnitude 1/2, 1 or 2, negative for odd orders.
array_extrapolation(n, x, ac) ==
    IF x = 0 THEN (IF n = 0 THEN RInt(1) ELSE RInt(0))
    ELSE LET sign == IF n % 2 = 1 THEN -1 ELSE 1
         IN  CASE (n + x + ac) % 3 = 0 -> Rat(sign, 2)
               [] (n + x + ac) % 3 = 1 -> Rat(sign, 1)
               [] OTHER -> Rat(2 * sign, 1)

\* a_max = pow(10, amp_maxdB / 20), for the limits drawn (multiples of 20)
a_max(amp_maxdB) ==
    CASE amp_maxdB = 0 -> RInt(1)
      [] amp_maxdB = 20 -> RInt(10)
      [] amp_maxdB = -20 -> Rat(1, 10)

\* line 216: 2 * a_max / pi * abs(bnval) * arctan(pi / (2 * a_max * abs(bnval))).
\* With x = a_max * abs(bnval) this is x * (2 / pi) * arctan(pi / (2 * x)):
\* 0 at x = 0, growing with x, below 1 and tending to 1.  The arctangent is
\* not rational; x / (1 + x) has the same end values and the same growth.
Limiter(amax, bnval) ==
    LET x == RMul(amax, RAbs(bnval))
    IN  RDiv(x, RAdd(RInt(1), x))

\* lines 193-197
krN(kr) == Len(kr.v[1])
krM(kr) == IF kr.ndim = 1 THEN 1 ELSE Len(kr.v)

\* lines 203-204: if kr[0] == 0: kr[0] = kr[1].  The outcome is the exception
\* raised, if any, and the array object after the statement.
\*  ndim = 1: kr[0] and kr[1] are elements; kr[1] of a one-element array
\*            raises IndexError.
\*  ndim = 2: kr[0] == 0 is an array of krN truth values, and `if` on an
\*            array of more than one element raises ValueError; kr[0] = kr[1]
\*            copies the second row over the first.
ZeroGuard(kr) ==
    IF kr.ndim = 1
    THEN IF kr.v[1][1] # 0 THEN [exc |-> "none", kr |-> kr]
         ELSE IF Len(kr.v[1]) < 2 THEN [exc |-> "IndexError", kr |-> kr]
         ELSE [exc |-> "none", kr |-> [kr EXCEPT !.v[1][1] = kr.v[1][2]]]
    ELSE IF Len(kr.v[1]) > 1 THEN [exc |-> "ValueError", kr |-> kr]
         ELSE IF kr.v[1][1] # 0 THEN [exc |-> "none", kr |-> kr]
         ELSE [exc |-> "none", kr |-> [kr EXCEPT !.v[1] = kr.v[2]]]

\* krm[ctr] (= krs[ctr]) for bin ctr (0-based) once the guard has run, where
\* the call gets that far: a one-row kr, or a two-row kr of one bin, whose
\* first row krm[ctrb] selects.
KrAt(kr, ctr) == kr.v[1][ctr + 1]

\* lines 210-217: OutputArray after the BN filter calculation
BnFilters(a, kr) ==
    [n \in 0..a.N |-> [b \in 0..(krN(kr) - 1) |->
        LET bnval == array_extrapolation(n, KrAt(kr, b), a.ac)
            amplicalc == IF a.amp_maxdB # 0
                         THEN Limiter(a_max(a.amp_maxdB), bnval)
                         ELSE RInt(1)
        IN  RDiv(amplicalc, bnval)]]

\* line 219: if (krN < 32 & plc != 0).  & binds tighter than < and !=, and
\* the comparisons chain: krN < (32 & plc) and (32 & plc) != 0.
PlcGuard(n, plc) ==
    n < BitAnd(MinPlcBins, plc) /\ BitAnd(MinPlcBins, plc) # 0

\* lines 225-231: the loops that compute xi.
\*   for ctr in bins:
\*       for ctrb in orders: xi = xi + (2 * ctrb + 1) * (1 - dn * bn)
\*       xi[ctr] = xi[ctr] * 1 / bn0;  xi[ctr] = xi[ctr] + dn0
\* The inner statement adds its term to EVERY element of xi.  XiTerm(ctr) is
\* the total the inner loop adds in round ctr.  Element b therefore holds the
\* terms of rounds 0..b when round b divides it and adds dn0, and receives
\* the terms of the rounds after b unscaled.
RECURSIVE XiTerm(_, _, _, _, _)
XiTerm(a, kr, Out, ctr, n) ==
    IF n > a.N THEN RInt(0)
    ELSE RAdd(RMul(RInt(2 * n + 1),
                   RSub(RInt(1),
                        RMul(Out[n][ctr],
                             array_extrapolation(n, KrAt(kr, ctr), a.ac)))),
              XiTerm(a, kr, Out, ctr, n + 1))

\* The sum of XiTerm over the rounds from..to (summed by halves)
RECURSIVE XiTerms(_, _, _, _, _)
XiTerms(a, kr, Out, from, to) ==
    IF from > to THEN RInt(0)
    ELSE IF from = to THEN XiTerm(a, kr, Out, from, 0)
    ELSE LET mid == (from + to) \div 2
         IN  RAdd(XiTerms(a, kr, Out, from, mid),
                  XiTerms(a, kr, Out, mid + 1, to))

XiLoops(a, kr, Out) ==
    [b \in 0..(krN(kr) - 1) |->
        RAdd(RAdd(RDiv(XiTerms(a, kr, Out, 0, b),
                       array_extrapolation(0, KrAt(kr, b), a.ac)),
                  Out[0][b]),
             XiTerms(a, kr, Out, b + 1, krN(kr) - 1))]

\* xi after line 231: bound only when `not plc` held
XiOf(a, kr, Out, plc) ==
    IF plc = 0
    THEN Some(XiLoops(a, kr, Out))
    ELSE None

\* lines 264-270: normalizeBeam = pow(N + 1, 2)
\* (normalizeBeamDoubled: (N + 1) * 2 in place of the square)
normalizeBeamDoubled(N) == (N + 1) * 2
normalizeBeam(N) == (N + 1) * (N + 1)

RECURSIVE BeamSum(_, _, _, _, _)
BeamSum(a, kr, Out, b, n) ==
    IF n > a.N THEN RInt(0)
    ELSE RAdd(RMul(RMul(RInt(2 * n + 1),
                        array_extrapolation(n, KrAt(kr, b), a.ac)),
                   Out[n][b]),
              BeamSum(a, kr, Out, b, n + 1))

BeamResponse(a, kr, Out) ==
    [b \in 0..(krN(kr) - 1) |->
        RDiv(BeamSum(a, kr, Out, b, 0), RInt(normalizeBeam(a.N)))]

\* The whole call: [ret, frame].  frame holds the caller's kr array object
\* and the locals plc, xi and what was printed, as they are when the call
\* ends.
radFilter(a) ==
    LET g      == ZeroGuard(a.kr)
        kr     == g.kr
        Out    == BnFilters(a, kr)
        reset  == PlcGuard(krN(kr), a.plc)
        plc    == IF reset THEN 0 ELSE a.plc
        stdout == IF reset THEN <<"Not enough kr values for PLC fading">>
                  ELSE <<>>
        xi     == XiOf(a, kr, Out, plc)
        fr     == [kr |-> kr, plc |-> plc, xi |-> xi, stdout |-> stdout]
    IN  IF g.exc # "none"
        THEN [ret |-> [exc |-> g.exc],
              frame |-> [kr |-> kr, plc |-> a.plc, xi |-> None, stdout |-> <<>>]]
        \* line 234 (plc == 1) and line 262 (plc == 2) read xi
        ELSE IF plc # 0 /\ xi = None
        THEN [ret |-> [exc |-> "UnboundLocalError"], frame |-> fr]
        \* line 269: with a two-row kr the product has two rows and cannot be
        \* added in place to the one-row BeamResponse
        ELSE IF kr.ndim = 2
        THEN [ret |-> [exc |-> "ValueError"], frame |-> fr]
        \* lines 234-259 assign locals only; line 262 assigns OutputArray[0]
        ELSE LET dn == IF plc = 2
                       THEN [Out EXCEPT ![0] = xi[1]]
                       ELSE Out
             IN  [ret |-> [exc |-> "none", dn |-> dn,
                           beam |-> BeamResponse(a, kr, dn)],
                  frame |-> fr]

\* kr arrays: kr[b] = kr0 + b * step, as a vector or as a matrix whose
\* second row is the scatterer's
KrVector(len, kr0, step) ==
    [ndim |-> 1, v |-> <<[i \in 1..len |-> kr0 + (i - 1) * step]>>]
KrMatrix(len, kr0, step) ==
    [ndim |-> 2, v |-> <<[i \in 1..len |-> kr0 + (i - 1) * step],
                         [i \in 1..len |-> 1 + kr0 + (i - 1) * step]>>]

ShortKrArrays ==
    {KrVector(len, kr0, step) :
        len \in 1..MaxShortKr, kr0 \in 0..1, step \in 0..MaxKrStep}
    \cup
    {KrMatrix(len, kr0, step) :
        len \in 1..MaxShortKr, kr0 \in 0..1, step \in 0..MaxKrStep}

\* Arrays on both sides of the 32 bins of line 219
LongKrArrays ==
    {KrVector(len, kr0, step) :
        len \in {MinPlcBins - 1, MinPlcBins, MinPlcBins + 1},
        kr0 \in 0..1, step \in 0..1}

RadFilterArgs ==
    [N : 0..MaxOrder, kr : ShortKrArrays, ac : {0, 2},
     amp_maxdB : {0, 20, -20}, plc : 0..2, fadeover : {0, 1}]
    \cup
    [N : 0..MaxOrder, kr : LongKrArrays, ac : {0, 2},
     amp_maxdB : {0}, plc : 0..2, fadeover : {0, 1}]

InitRad ==
    /\ fn = "radFilter"
    /\ args \in RadFilterArgs
    /\ ret = Pending
    /\ frame = NoFrame

CallRadFilter ==
    /\ fn = "radFilter"
    /\ ret.exc = "pending"
    /\ LET r == radFilter(args)
       IN  ret' = r.ret /\ frame' = r.frame
    /\ UNCHANGED <<fn, args>>

NextRad == CallRadFilter

SpecRad == InitRad /\ [][NextRad]_vars

-----------------------------------------------------------------------------
(* The claims                                                             *)

Returned(f) == fn = f /\ ret.exc # "pending"
Succeeded(f) == fn = f /\ ret.exc = "none"

\* The canonical flattened index of (n, m): n = 0..N, m = -n..n
FlatIndex(n, m) == n * n + n + m

-----------------------------------------------------------------------------
\* C1 (as claimed): every ideal_wave call contributes nothing to the bins
\* outside [lowerSegLim, upperSegLim], and sampledWave returns a coefficient
\* matrix whose column b holds exactly the coefficients computed at the
\* clipped required order of bin b (zero above that order).
C1_SegmentsRestrictedToTheirBins ==
    /\ Succeeded("ideal_wave") =>
          \A row \in DOMAIN ret.Pnm : \A b \in DOMAIN ret.Pnm[row] :
              (b < args.lowerSegLim \/ b > UpperSegLimOf(args))
                  => ret.Pnm[row][b] = CZero
    /\ Returned("sampledWave") =>
          /\ ret.exc = "none"
          /\ \A b \in DOMAIN frame.rqOrders :
                \A n \in 0..frame.Ng : \A m \in (-n)..n :
                    ret.Pnm[FlatIndex(n, m)][b] =
                        IF n <= frame.rqOrders[b]
                        THEN CMul(Conj(sph_harm(m, n)),
                                  array_extrapolation_freq(n, b))
                        ELSE CZero

-----------------------------------------------------------------------------
\* C2 (as claimed): in the matrix a successful ideal_wave call returns, every
\* row of an order above the segment order is zero at every bin, and the row
\* of (n, m), n <= segment order, holds conj(Y_n^m) times the radial filter
\* of order n at the canonical index.
C2_RowsAboveSegmentOrderAreZero ==
    Succeeded("ideal_wave") =>
        \A n \in 0..args.N : \A m \in (-n)..n : \A b \in 0..(NFFTof(args.F_NFFT) - 1) :
            ret.Pnm[FlatIndex(n, m)][b] =
                IF n <= SegNof(args)
                THEN CMul(Conj(sph_harm(m, n)), radial_filters(args, n, b))
                ELSE CZero

-----------------------------------------------------------------------------
\* The arguments other than the segment order are valid, as section 4.3 of
\* the specification lists validity (texts compared by value).
OtherArgumentsValid(a) ==
    LET NFFT == NFFTof(a.F_NFFT)
    IN  /\ a.lowerSegLim \in 0..(NFFT - 1)
        /\ UpperSegLimOf(a) \in a.lowerSegLim..(NFFT - 1)
        /\ a.wavetype.val \in {"plane", "spherical"}
        /\ a.array_configuration.val \in {"open", "rigid", "dual"}
        /\ a.transducer_type.val \in {"pressure", "velocity"}
        /\ a.array_configuration.val = "dual" => a.transducer_type.val = "pressure"
        /\ 2 * a.delayfs <= a.F_NFFT
        /\ a.wavetype.val = "plane" => a.distance > a.array_radius

\* C3 (as claimed): ideal_wave with segment order above N fails with a
\* validation error; with segment order equal to N and every other argument
\* valid it succeeds and the generator loop writes all (N + 1)^2 rows.
C3_SegmentOrderBoundary ==
    Returned("ideal_wave") =>
        /\ SegNof(args) > args.N => ret.exc = "ValueError"
        /\ (SegNof(args) = args.N /\ OtherArgumentsValid(args)) =>
              (ret.exc = "none" /\ RowsWritten(args) = NMLocatorSize(args.N))

-----------------------------------------------------------------------------
\* C4 (as claimed): ideal_wave with wave type 'plane' and distance at most
\* the array radius (equal included) fails with a validation error whatever
\* the other arguments are.
C4_PlaneSourceInsideArrayFails ==
    (Returned("ideal_wave") /\ args.wavetype.val = "plane"
        /\ args.distance <= args.array_radius)
    => ret.exc = "ValueError"

-----------------------------------------------------------------------------
\* Calls of radFilter whose kr is a vector that passes the zero guard: the
\* PLC claims are about these.
VectorCall ==
    Returned("radFilter") /\ args.kr.ndim = 1 /\ krN(args.kr) >= 2

\* The filters before compensation, and the compensation curve of section
\* 4.2: sum over the orders of (2n + 1) * (1 - filter[n] * response[n]),
\* scaled by 1 / response[0], offset by the uncompensated order-0 filter.
RawFilters == BnFilters(args, frame.kr)
XiCurve(b) ==
    RAdd(RDiv(XiTerm(args, frame.kr, RawFilters, b, 0),
              array_extrapolation(0, KrAt(frame.kr, b), args.ac)),
         RawFilters[0][b])

\* C5 (as claimed): with fewer than 32 bins and a PLC mode other than off,
\* radFilter resets plc to off, prints the diagnostic and returns the
\* uncompensated order-0 filter.
C5_FewBinsDisablePlc ==
    (VectorCall /\ krN(args.kr) < MinPlcBins /\ args.plc # 0) =>
        /\ frame.plc = 0
        /\ frame.stdout # <<>>
        /\ ret.exc = "none"
        /\ ret.dn[0] = RawFilters[0]

-----------------------------------------------------------------------------
\* C6 (as claimed): in full-spectrum PLC mode (plc = 1 in the docstring)
\* radFilter completes and row 0 of the returned filter bank is the
\* compensation curve xi at every bin.
C6_FullSpectrumReturnsXi ==
    (VectorCall /\ krN(args.kr) >= MinPlcBins /\ args.plc = 1) =>
        /\ ret.exc = "none"
        /\ \A b \in 0..(krN(args.kr) - 1) : ret.dn[0][b] = XiCurve(b)

-----------------------------------------------------------------------------
\* The crossover bin: the first bin that minimises |filter0 - xi|
Distance(b) == RAbs(RSub(RawFilters[0][b], XiCurve(b)))
Crossover ==
    CHOOSE b \in 0..(krN(args.kr) - 1) :
        /\ \A c \in 0..(krN(args.kr) - 1) : ~RLess(Distance(c), Distance(b))
        /\ \A c \in 0..(b - 1) : RLess(Distance(b), Distance(c))
\* |20 * log10(1 / |filter0 / xi|)| > 20: the ratio is above 10 or below 1/10
GapExceeds20dB ==
    LET ratio == RAbs(RDiv(XiCurve(Crossover), RawFilters[0][Crossover]))
    IN  RLess(RInt(10), ratio) \/ RLess(ratio, Rat(1, 10))
\* The fade region: fadeover bins on both sides of the crossover bin, inside
\* the bins of the call
FadeLow == Max(0, Crossover - args.fadeover)
FadeHigh == Min(krN(args.kr) - 1, Crossover + args.fadeover)

\* C7 (as claimed): in low-kr-only PLC mode (plc = 2 in the docstring)
\* radFilter returns the uncompensated order-0 filter when the gap at the
\* crossover bin exceeds 20 dB, and otherwise a blend over the fade region:
\* xi below the region, the uncompensated filter above it, one of the two
\* curves at each end of it.
C7_LowKrBlend ==
    (VectorCall /\ krN(args.kr) >= MinPlcBins /\ args.plc = 2) =>
        /\ ret.exc = "none"
        /\ IF GapExceeds20dB
           THEN ret.dn[0] = RawFilters[0]
           ELSE \A b \in 0..(krN(args.kr) - 1) :
                  /\ b < FadeLow => ret.dn[0][b] = XiCurve(b)
                  /\ b > FadeHigh => ret.dn[0][b] = RawFilters[0][b]
                  /\ b \in {FadeLow, FadeHigh} =>
                        ret.dn[0][b] \in {XiCurve(b), RawFilters[0][b]}

-----------------------------------------------------------------------------
\* Every order's response at bin b has a reciprocal
ResponsesInvertible(b) ==
    \A n \in 0..args.N :
        array_extrapolation(n, KrAt(frame.kr, b), args.ac) # RInt(0)

\* C8: the beam response radFilter returns is, at every bin, the sum over
\* n = 0..N of (2n + 1) * response[n] * filter[n] divided by (N + 1)^2 for
\* the filters it returns; with the limiter disabled (0 dB) and PLC off it
\* is exactly 1 at every bin where the responses have reciprocals.
C8_BeamResponseNormalised ==
    Succeeded("radFilter") =>
        \A b \in 0..(krN(args.kr) - 1) :
            /\ IsFinite(ret.beam[b]) =>
                  RMul(ret.beam[b], RInt((args.N + 1) * (args.N + 1)))
                      = BeamSum(args, frame.kr, ret.dn, b, 0)
            /\ (args.amp_maxdB = 0 /\ args.plc = 0 /\ ResponsesInvertible(b))
                  => ret.beam[b] = RInt(1)

\* A call with N >= 2, no limiter, PLC off and a zero first kr bin that the
\* guard replaced, whose responses are not all 1, returned unity at each bin.
C8_Witness ==
    /\ Succeeded("radFilter")
    /\ args.N >= 2 /\ args.amp_maxdB = 0 /\ args.plc = 0
    /\ krN(args.kr) >= 3
    /\ args.kr.v[1][1] = 0 /\ frame.kr.v[1][1] # 0
    /\ \E b \in 0..(krN(args.kr) - 1) : \E n \in 0..args.N :
          array_extrapolation(n, KrAt(frame.kr, b), args.ac) \notin {RInt(0), RInt(1)}
    /\ \A b \in 0..(krN(args.kr) - 1) : ret.beam[b] = RInt(1)

-----------------------------------------------------------------------------
\* c is ceil(2 * kr[b]): 2 * kr[b] = b * twoKrMax / (K - 1)
IsCeilOfTwoKr(c, b) ==
    LET K == BinsOf(args.NFFT)
        t == TwoKrRefMax(args.r)
    IN  IF K = 1 THEN c = 0
        ELSE (c - 1) * (K - 1) < b * t /\ b * t <= c * (K - 1)

\* The bins that share an order form one contiguous range
OrdersContiguous ==
    \A b1, b2, b3 \in DOMAIN frame.rqOrders :
        (b1 < b2 /\ b2 < b3 /\ frame.rqOrders[b1] = frame.rqOrders[b3])
            => frame.rqOrders[b2] = frame.rqOrders[b1]

\* C9 (as claimed): for every bin and every Nlim the order assigned to the
\* bin is ceil(2 * kr) clipped to [70, Nlim], never below 70 and never above
\* Nlim, and the bins of one order form one contiguous range.
C9_OrderWithinFloorAndCeiling ==
    Returned("sampledWave") =>
        /\ \A b \in DOMAIN frame.rqOrders :
              /\ frame.rqOrders[b] >= minOrderLim
              /\ frame.rqOrders[b] <= args.Nlim
              /\ \E c \in 0..(MaxTwoKr + 1) :
                    /\ IsCeilOfTwoKr(c, b)
                    /\ frame.rqOrders[b] = Min(Max(c, minOrderLim), args.Nlim)
        /\ OrdersContiguous

\* C9 (amended): the order assigned to a bin is ceil(2 * kr) raised to at
\* least 70 and then capped at Nlim: it is never above Nlim, it is never
\* below 70 when Nlim >= 70 and equals Nlim when Nlim < 70; the bins of one
\* order form one contiguous range.
C9_OrderFloorThenCeiling ==
    Returned("sampledWave") =>
        /\ \A b \in DOMAIN frame.rqOrders :
              /\ frame.rqOrders[b] <= args.Nlim
              /\ args.Nlim >= minOrderLim => frame.rqOrders[b] >= minOrderLim
              /\ args.Nlim < minOrderLim => frame.rqOrders[b] = args.Nlim
              /\ \E c \in 0..(MaxTwoKr + 1) :
                    /\ IsCeilOfTwoKr(c, b)
                    /\ frame.rqOrders[b] = Min(Max(c, minOrderLim), args.Nlim)
        /\ OrdersContiguous

\* A call whose bins ask for orders below the floor and above the ceiling:
\* two segments, one at 70 and one at Nlim.
C9_Witness ==
    /\ Returned("sampledWave")
    /\ args.Nlim > minOrderLim
    /\ \E b \in DOMAIN frame.rqOrders :
          RawOrders(args.r, args.NFFT)[b] < minOrderLim
          /\ frame.rqOrders[b] = minOrderLim
    /\ \E b \in DOMAIN frame.rqOrders :
          RawOrders(args.r, args.NFFT)[b] > args.Nlim
          /\ frame.rqOrders[b] = args.Nlim
    /\ Cardinality(frame.unique_orders) = 2

-----------------------------------------------------------------------------
\* C10: gaussGrid returns AZnodes * ELnodes rows; rows k * ELnodes ..
\* (k + 1) * ELnodes - 1 carry azimuth node k; the elevation order of a block
\* is the reverse of the next block's; and each row's weight is the weight of
\* the row's own (azimuth, elevation) node.
C10_ZigZagGridWithOwnWeights ==
    Succeeded("gaussGrid") =>
        LET A == args.AZnodes
            E == args.ELnodes
            g == ret.gridData
            Row(k, i) == g[k * E + i + 1]
        IN  /\ DOMAIN g = 1..(A * E)
            /\ \A k \in 0..(A - 1) : \A i \in 0..(E - 1) :
                  /\ Row(k, i).az = k
                  /\ Row(k, i).el \in 0..(E - 1)
                  /\ k + 1 < A => Row(k + 1, E - 1 - i).el = Row(k, i).el
                  /\ Row(k, i).w = <<Row(k, i).az, Row(k, i).el>>
            /\ \A k \in 0..(A - 1) : \A i, j \in 0..(E - 1) :
                  i # j => Row(k, i).el # Row(k, j).el

\* A grid of at least three azimuths and two elevations: block 0 starts at
\* the last elevation node, block 1 at the first, block 2 at the last again.
C10_Witness ==
    /\ Succeeded("gaussGrid")
    /\ args.AZnodes >= 3 /\ args.ELnodes >= 2
    /\ ret.gridData[1].el = args.ELnodes - 1
    /\ ret.gridData[args.ELnodes + 1].el = 0
    /\ ret.gridData[2 * args.ELnodes + 1].el = args.ELnodes - 1
    /\ ret.gridData[1].w = <<0, args.ELnodes - 1>>

-----------------------------------------------------------------------------
\* C11 (as claimed): radFilter leaves the caller's kr array as it found it.
\* kr is passed by reference and krm, krs are names of the same array, so
\* frame.kr, the array once the call is over, is what the caller holds: it
\* has the values of the argument, for the one-row and the two-row form,
\* whether the call returns or raises.
C11_CallerKrUnchanged ==
    Returned("radFilter") => frame.kr = args.kr

-----------------------------------------------------------------------------

NextGauss == CallGaussGrid

SpecGauss == InitGauss /\ [][NextGauss]_vars

\* The segmented sampler together with the generator it calls
InitSegments == InitSampled \/ InitWave

NextSegments ==
    \/ CallSampledWave
    \/ CallIdealWave

SpecSegments == InitSegments /\ [][NextSegments]_vars

Init == InitGauss \/ InitRad \/ InitSampled \/ InitWave

Next ==
    \/ CallGaussGrid
    \/ CallRadFilter
    \/ CallSampledWave
    \/ CallIdealWave

Spec == Init /\ [][Next]_vars

=============================================================================
